---------------------------- MODULE Spec2Model ----------------------------
(***************************************************************************)
(* Model of snnradiation: the radiation specification Rad_damage           *)
(* (src/src/snnradiation/Rad_damage.py), its hashing, and the routines     *)
(* that inject simulated radiation into a simsnn network                   *)
(* (src/src/snnradiation/apply_rad_to_simsnn.py).                          *)
(*                                                                         *)
(* Conventions.                                                            *)
(*  - A Python str is a sequence of character codes (ASCII), compared      *)
(*    lexicographically as Python compares str.                            *)
(*  - A Python float is a rational [num, den] with den > 0 where only its  *)
(*    comparison with 0 and 1 matters (probabilities), and an integer      *)
(*    where it is only stored and copied (amplitudes, weights).            *)
(*  - Optional[T] is a record [some, v]; None has some = FALSE.            *)
(*  - sha256(...).hexdigest() is an idealised, collision-free digest: an   *)
(*    injective function of the text it is given.                          *)
(*  - A node object is a record with an object identity oid; a synapse     *)
(*    holds its pre and post node objects.                                 *)
(***************************************************************************)
EXTENDS Integers, Sequences, FiniteSets, TLC

VARIABLES
    nodes,      \* snn.network.nodes of the network under injection
    synapses,   \* snn.network.synapses of the network under injection
    nodeCount,  \* simsnn's count of the nodes it has created (names unnamed nodes)
    pre,        \* the network as it was before the last injection call
    call,       \* the last injection call: routine, arguments, outcome
    nodesB,     \* a second, structurally identical network (independent run)
    synapsesB,  \* its synapses
    nodeCountB, \* node count of the process of the second run
    ctor,       \* the last Rad_damage construction: arguments and outcome
    neuron_names, \* the caller's list handed to get_rad_hash
    hashlog,    \* what the hashing calls made so far took and returned
    G,          \* the nodes of the nx.DiGraph handed to Radiation_damage
    deathlog    \* the last call of a routine of Radiation_damage.py

vars == <<nodes, synapses, nodeCount, pre, call, nodesB, synapsesB, nodeCountB,
          ctor, neuron_names, hashlog, G, deathlog>>

netVars  == <<nodes, synapses, nodeCount, pre, call>>
twinVars == <<nodesB, synapsesB, nodeCountB>>
ctorVars == <<ctor>>
hashVars == <<neuron_names, hashlog>>
deathVars == <<G, deathlog>>

-----------------------------------------------------------------------------
(* Python values *)

NoneInt == [some |-> FALSE, v |-> 0]
SomeInt(x) == [some |-> TRUE, v |-> x]

Rat(n, d) == [num |-> n, den |-> d]
NoneFloat == [some |-> FALSE, v |-> Rat(0, 1)]
SomeFloat(q) == [some |-> TRUE, v |-> q]

\* q > 1 and q < 0 for a rational with a positive denominator.
RatGtOne(q) == q.num > q.den
RatLtZero(q) == q.num < 0

\* Python's str < str: the first position where the two differ decides, and a
\* proper prefix is smaller than the str it is a prefix of.
StrLess(a, b) ==
    LET m == IF Len(a) < Len(b) THEN Len(a) ELSE Len(b)
        differ == {i \in 1..m : a[i] # b[i]}
    IN  IF differ = {} THEN Len(a) < Len(b)
        ELSE LET i == CHOOSE j \in differ : \A k \in differ : j <= k
             IN  a[i] < b[i]

\* str(n) for an integer n: decimal digits, "-" in front of a negative one.
RECURSIVE NatToStr(_)
NatToStr(n) ==
    IF n < 10 THEN <<48 + n>>
    ELSE NatToStr(n \div 10) \o <<48 + (n % 10)>>

IntToStr(n) == IF n < 0 THEN <<45>> \o NatToStr(-n) ELSE NatToStr(n)

\* The concatenation of a sequence of strs.
RECURSIVE Concat(_)
Concat(ss) == IF ss = << >> THEN << >> ELSE ss[1] \o Concat(Tail(ss))

\* sep.join(ss)
RECURSIVE Join(_, _)
Join(sep, ss) ==
    IF ss = << >> THEN << >>
    ELSE IF Len(ss) = 1 THEN ss[1]
    ELSE ss[1] \o sep \o Join(sep, Tail(ss))

\* json.dumps of a str: the str in double quotes.
JsonStr(s) == <<34>> \o s \o <<34>>

\* json.dumps of a list whose elements are already JSON texts.
JsonList(texts) == <<91>> \o Join(<<44, 32>>, texts) \o <<93>>

\* hashlib.sha256(text).hexdigest(), collision-free: "#" and the text.
Sha256Hex(text) == <<35>> \o text

-----------------------------------------------------------------------------
(* sorted(...) *)

\* x put into the sorted sequence s, after the elements that are not larger.
RECURSIVE InsertStr(_, _)
InsertStr(x, s) ==
    IF s = << >> THEN <<x>>
    ELSE IF StrLess(x, s[1]) THEN <<x>> \o s
    ELSE <<s[1]>> \o InsertStr(x, Tail(s))

RECURSIVE SortedFrom(_, _)
SortedFrom(acc, s) ==
    IF s = << >> THEN acc ELSE SortedFrom(InsertStr(s[1], acc), Tail(s))

\* sorted(l) for a list of str
SortedStrs(l) == SortedFrom(<< >>, l)

\* sorted(l) for a list of (key, value) tuples with distinct keys: by key.
RECURSIVE InsertItem(_, _)
InsertItem(x, s) ==
    IF s = << >> THEN <<x>>
    ELSE IF StrLess(x.key, s[1].key) THEN <<x>> \o s
    ELSE <<s[1]>> \o InsertItem(x, Tail(s))

RECURSIVE SortedItemsFrom(_, _)
SortedItemsFrom(acc, s) ==
    IF s = << >> THEN acc ELSE SortedItemsFrom(InsertItem(s[1], acc), Tail(s))

SortedItems(l) == SortedItemsFrom(<< >>, l)

-----------------------------------------------------------------------------
(* Rad_damage: construction (Rad_damage.py, __init__) *)

\* The effect types __init__ accepts.
SupportedEffectTypes ==
    {"change_u", "neuron_death", "rand_neuron_spike", "rand_synapse_spike",
     "change_synaptic_weight"}

\* The first check with `or` for `and`.
NeedSomeProbabilityEither(a) ==
    (~a.nr_of_synaptic_weight_increases.some) \/ (~a.probability_per_t.some)

\* First check: neither form of probability is given.
NeedSomeProbability(a) ==
    (~a.nr_of_synaptic_weight_increases.some) /\ (~a.probability_per_t.some)

\* Second check: both forms of probability are given.
TwoProbabilityForms(a) ==
    a.nr_of_synaptic_weight_increases.some /\ a.probability_per_t.some

\* The third check with `>=` for `>`.
ProbabilityTooLargeOrOne(a) ==
    a.probability_per_t.some /\ ~(a.probability_per_t.v.num < a.probability_per_t.v.den)

\* Third check, only when probability_per_t is given: it is larger than 1.
ProbabilityTooLarge(a) ==
    a.probability_per_t.some /\ RatGtOne(a.probability_per_t.v)

\* Fourth check, only when probability_per_t is given: it is smaller than 0.
ProbabilityTooSmall(a) ==
    a.probability_per_t.some /\ RatLtZero(a.probability_per_t.v)

\* Last check: the effect type is not one of the supported ones.
EffectTypeNotImplemented(a) == a.effect_type \notin SupportedEffectTypes

\* The raise statement __init__ ends in, "none" when it returns the object.
RaisedAt(a) ==
    IF NeedSomeProbability(a) THEN "need_some_probability"
    ELSE IF TwoProbabilityForms(a) THEN "two_probability_forms"
    ELSE IF ProbabilityTooLarge(a) THEN "probability_larger_than_1"
    ELSE IF ProbabilityTooSmall(a) THEN "probability_smaller_than_0"
    ELSE IF EffectTypeNotImplemented(a) THEN "effect_type_not_implemented"
    ELSE "none"

\* The exception class of each raise statement.
ExceptionOf(at) ==
    IF at = "none" THEN "none"
    ELSE IF at = "effect_type_not_implemented" THEN "NotImplementedError"
    ELSE "ValueError"

\* Rad_damage(amplitude, effect_type, excitatory, inhibitory, probability_per_t,
\* nr_of_synaptic_weight_increases): the outcome of the constructor call.
Rad_damage(a) ==
    [called |-> TRUE, args |-> a, raised_at |-> RaisedAt(a),
     raised |-> ExceptionOf(RaisedAt(a))]

\* The objects the constructor returns for the arguments in args.
Constructed(args) == {a \in args : Rad_damage(a).raised = "none"}

-----------------------------------------------------------------------------
(* Rad_damage: hashing (Rad_damage.py, get_rad_settings_hash, get_rad_hash,  *)
(* list_of_hashes_to_hash)                                                   *)

\* The attributes of a Rad_damage object in the order __init__ sets them,
\* which is the order self.__dict__.items() enumerates them in.
DictOrder ==
    <<"amplitude", "effect_type", "excitatory", "inhibitory",
      "nr_of_synaptic_weight_increases", "probability_per_t">>

\* The attribute names as strs, shortened to their first two letters
\* ("am", "ef", "ex", "in", "nr", "pr"), which keeps their order.
FieldKey(f) ==
    CASE f = "amplitude" -> <<97, 109>>
      [] f = "effect_type" -> <<101, 102>>
      [] f = "excitatory" -> <<101, 120>>
      [] f = "inhibitory" -> <<105, 110>>
      [] f = "nr_of_synaptic_weight_increases" -> <<110, 114>>
      [] f = "probability_per_t" -> <<112, 114>>

\* The effect types as strs, shortened to two letters.
EffectText(e) ==
    CASE e = "change_u" -> <<99, 117>>
      [] e = "neuron_death" -> <<110, 100>>
      [] e = "rand_neuron_spike" -> <<114, 110>>
      [] e = "rand_synapse_spike" -> <<114, 115>>
      [] e = "change_synaptic_weight" -> <<99, 119>>
      [] OTHER -> <<63>>

JsonBool(b) == IF b THEN <<116, 114, 117, 101>> ELSE <<102, 97, 108, 115, 101>>
JsonNull == <<110, 117, 108, 108>>

\* json.dumps of the value of attribute f of rad.
FieldJson(rad, f) ==
    CASE f = "amplitude" -> IntToStr(rad.amplitude) \o <<46, 48>>
      [] f = "effect_type" -> JsonStr(EffectText(rad.effect_type))
      [] f = "excitatory" -> JsonBool(rad.excitatory)
      [] f = "inhibitory" -> JsonBool(rad.inhibitory)
      [] f = "nr_of_synaptic_weight_increases" ->
            IF rad.nr_of_synaptic_weight_increases.some
            THEN IntToStr(rad.nr_of_synaptic_weight_increases.v)
            ELSE JsonNull
      [] f = "probability_per_t" ->
            IF rad.probability_per_t.some
            THEN IntToStr(rad.probability_per_t.v.num) \o <<47>>
                 \o IntToStr(rad.probability_per_t.v.den)
            ELSE JsonNull

\* rad_settings: the (key, value) tuples, enumerated in the given order.
RadSettings(rad, order) ==
    [i \in 1..Len(order) |->
        [key |-> FieldKey(order[i]), value |-> FieldJson(rad, order[i])]]

\* json.dumps of a list of (key, value) tuples.
JsonItems(items) ==
    JsonList([i \in 1..Len(items) |->
                JsonList(<<JsonStr(items[i].key), items[i].value>>)])

\* json.dumps of a list of strs.
JsonStrs(l) == JsonList([i \in 1..Len(l) |-> JsonStr(l[i])])

\* get_rad_settings_hash, were the attributes enumerated in the given order.
SettingsHashIn(rad, order) ==
    Sha256Hex(JsonItems(SortedItems(RadSettings(rad, order))))

\* self.get_rad_settings_hash()
get_rad_settings_hash(rad) == SettingsHashIn(rad, DictOrder)

\* list_of_hashes_to_hash without its sorted(...).
list_of_hashes_to_hash_unsorted(hashes) == Sha256Hex(JsonStrs(hashes))

\* list_of_hashes_to_hash(hashes)
list_of_hashes_to_hash(hashes) == Sha256Hex(JsonStrs(SortedStrs(hashes)))

\* get_rad_hash: the caller's list neuron_names after the two appends.
RadHashList(rad, names, seed) ==
    names \o <<get_rad_settings_hash(rad), IntToStr(seed)>>

\* get_rad_hash: the value returned, the digest of the sorted extended list.
RadHashValue(rad, names, seed) ==
    Sha256Hex(JsonStrs(SortedStrs(RadHashList(rad, names, seed))))

-----------------------------------------------------------------------------
(* The simsnn network (simsnn.core: Network, LIF, RandomSpiker, Synapse) *)

\* A LIF neuron created by the caller under the name it was given. The
\* fields of a RandomSpiker are unused in it.
LIF(oid, name) ==
    [oid |-> oid, name |-> name, kind |-> "LIF", p |-> NoneFloat,
     amplitude |-> 0, rngseed |-> NoneInt]

\* The name simsnn gives a node that is created without an ID: made from the
\* count of the nodes created so far ("n<count>"), so no two such names are
\* equal and none equals a caller's name.
AutoName(count) == <<110>> \o IntToStr(count)

\* RandomSpiker(p=p, amplitude=amplitude, rng=np.random.default_rng(seed=rngseed))
RandomSpiker(oid, name, p, amplitude, rngseed) ==
    [oid |-> oid, name |-> name, kind |-> "RandomSpiker", p |-> p,
     amplitude |-> amplitude, rngseed |-> SomeInt(rngseed)]

\* The ID of a synapse: None, a str or an int.
NoneID == [tag |-> "None", str |-> << >>, int |-> 0]
StrID(s) == [tag |-> "str", str |-> s, int |-> 0]
IntID(n) == [tag |-> "int", str |-> << >>, int |-> n]

\* Synaptic_rad(avg_weight_increase=..., ..., seed=...): the object that
\* holds these arguments.
Synaptic_rad(avg_weight_increase, effect_type, est_sim_duration, n_synapses, names, nswi, probability_per_t, seed) ==
    [avg_weight_increase |-> avg_weight_increase, effect_type |-> effect_type,
     est_sim_duration |-> est_sim_duration, n_synapses |-> n_synapses,
     neuron_names |-> names, nswi |-> nswi,
     probability_per_t |-> probability_per_t, seed |-> seed]

\* radiation=None and radiation=synaptic_rad of a Synapse
NoRadiation ==
    [some |-> FALSE,
     v |-> Synaptic_rad(0, "none", 0, 0, << >>, NoneInt, NoneFloat, 0)]
SomeRadiation(synaptic_rad) == [some |-> TRUE, v |-> synaptic_rad]

\* Synapse(pre=..., post=..., w=..., d=..., radiation=...) with its ID
SynapseWith(pre_node, post_node, w, d, ID, radiation) ==
    [pre |-> pre_node, post |-> post_node, w |-> w, d |-> d, ID |-> ID,
     radiation |-> radiation]

\* Synapse(pre, post, w, d), as net.createSynapse appends it when it is
\* given no ID.
Synapse(pre_node, post_node, w, d) ==
    SynapseWith(pre_node, post_node, w, d, NoneID, NoRadiation)

-----------------------------------------------------------------------------
(* apply_rad_to_simsnn.py: the injection routines. A network is a record   *)
(* [nodes, synapses, nodeCount].                                           *)

\* amplitude=-10000 of the RandomSpiker of apply_delta_u_rad
DeltaUSpikerAmplitude == -10000
\* amplitude=1 of the RandomSpiker of the two random-spike routines
RandSpikerAmplitude == 1
\* d=1 of every synapse the routines create
NewSynapseDelay == 1

\* The test left out: every element passes.
NotIgnoredUnchecked(name, ignored_neuron_names) == TRUE

\* `node.name not in ignored_neuron_names`
NotIgnored(name, ignored_neuron_names) == name \notin ignored_neuron_names

\* `for i, node in enumerate(...)` with `if node.name not in
\* ignored_neuron_names`: the positions i (from 0) the loop body runs for.
NodePositions(ns, ignored_neuron_names) ==
    SelectSeq([i \in 1..Len(ns) |-> i - 1],
              LAMBDA i : NotIgnored(ns[i + 1].name, ignored_neuron_names))

\* `for i, synapse in enumerate(net.synapses)` with `if synapse.pre.name not
\* in ignored_neuron_names`: the positions i (from 0) the loop body runs for.
SynapsePositions(syns, ignored_neuron_names) ==
    SelectSeq([i \in 1..Len(syns) |-> i - 1],
              LAMBDA i : NotIgnored(syns[i + 1].pre.name, ignored_neuron_names))

\* The RandomSpiker seeded from what the process has done so far (the count
\* of the nodes created) instead of from the seed of the call.
NewRandomSpikerUnseeded(net, p, amplitude, seed, i, k) ==
    RandomSpiker(Len(net.nodes) + k, AutoName(net.nodeCount + k - 1), p,
                 amplitude, net.nodeCount + k)

\* The k-th RandomSpiker (k from 1) a call creates on net, for the element at
\* position i: seeded with seed + i, and named by simsnn.
NewRandomSpiker(net, p, amplitude, seed, i, k) ==
    RandomSpiker(Len(net.nodes) + k, AutoName(net.nodeCount + k - 1), p,
                 amplitude, seed + i)

\* apply_delta_u_rad, first loop: new_nodes, the (rand_spiking_node, node)
\* tuples for the nodes of `over` that are not ignored.
DeltaUNewNodes(net, over, rad, seed, ignored_neuron_names) ==
    LET at == NodePositions(over, ignored_neuron_names)
    IN  [k \in 1..Len(at) |->
            [rand_spiking_node |->
                NewRandomSpiker(net, rad.probability_per_t,
                                DeltaUSpikerAmplitude, seed, at[k], k),
             target_node |-> over[at[k] + 1]]]

\* The second loop with pre and post exchanged: the synapse goes from the
\* neuron into its source.
DeltaUAppendReversed(net, new_nodes, rad) ==
    [nodes |-> net.nodes \o
        [k \in 1..Len(new_nodes) |-> new_nodes[k].rand_spiking_node],
     synapses |-> net.synapses \o
        [k \in 1..Len(new_nodes) |->
            Synapse(new_nodes[k].target_node, new_nodes[k].rand_spiking_node,
                    rad.amplitude, NewSynapseDelay)],
     nodeCount |-> net.nodeCount + Len(new_nodes)]

\* apply_delta_u_rad, second loop: the nodes and synapses appended.
DeltaUAppend(net, new_nodes, rad) ==
    [nodes |-> net.nodes \o
        [k \in 1..Len(new_nodes) |-> new_nodes[k].rand_spiking_node],
     synapses |-> net.synapses \o
        [k \in 1..Len(new_nodes) |->
            Synapse(new_nodes[k].rand_spiking_node, new_nodes[k].target_node,
                    rad.amplitude, NewSynapseDelay)],
     nodeCount |-> net.nodeCount + Len(new_nodes)]

\* apply_delta_u_rad with a single loop that also visits the nodes it appends
\* (once): the new sources get sources of their own.
apply_delta_u_rad_one_loop(net, rad, seed, ignored_neuron_names) ==
    LET first == DeltaUAppend(net,
                    DeltaUNewNodes(net, net.nodes, rad, seed, ignored_neuron_names),
                    rad)
        added == SubSeq(first.nodes, Len(net.nodes) + 1, Len(first.nodes))
    IN  DeltaUAppend(first,
            DeltaUNewNodes(first, added, rad, seed + Len(net.nodes),
                           ignored_neuron_names),
            rad)

\* apply_delta_u_rad(rad, seed, snn, ignored_neuron_names)
apply_delta_u_rad(net, rad, seed, ignored_neuron_names) ==
    DeltaUAppend(net,
        DeltaUNewNodes(net, net.nodes, rad, seed, ignored_neuron_names), rad)

\* The inner loop without its `if`: every synapse is a neighbour synapse.
NeighbourSynapsesAll(net, node) == net.synapses

\* apply_rand_spiking_neuron_rad, inner loop: neighbour_synapses of node.
NeighbourSynapses(net, node) ==
    SelectSeq(net.synapses, LAMBDA synapse : synapse.pre.name = node.name)

\* apply_rand_spiking_neuron_rad, first loop: new_nodes, the
\* (rand_spiking_node, neighbour_synapses) tuples.
NeuronSpikeNewNodes(net, rad, seed, ignored_neuron_names) ==
    LET at == NodePositions(net.nodes, ignored_neuron_names)
    IN  [k \in 1..Len(at) |->
            [rand_spiking_node |->
                NewRandomSpiker(net, rad.probability_per_t,
                                RandSpikerAmplitude, seed, at[k], k),
             synapses |-> NeighbourSynapses(net, net.nodes[at[k] + 1])]]

\* The routine moving the synapses of a neuron over to its source, instead
\* of adding synapses beside them.
apply_rand_spiking_neuron_rad_rewiring(net, rad, seed, ignored_neuron_names) ==
    LET new_nodes == NeuronSpikeNewNodes(net, rad, seed, ignored_neuron_names)
        SourceFor(node) ==
            LET ks == {k \in 1..Len(new_nodes) :
                          /\ new_nodes[k].synapses # << >>
                          /\ new_nodes[k].synapses[1].pre.name = node.name}
            IN  IF ks = {} THEN node
                ELSE new_nodes[CHOOSE k \in ks : TRUE].rand_spiking_node
    IN  [nodes |-> net.nodes \o
            [k \in 1..Len(new_nodes) |-> new_nodes[k].rand_spiking_node],
         synapses |->
            [j \in 1..Len(net.synapses) |->
                [net.synapses[j] EXCEPT !.pre = SourceFor(@)]],
         nodeCount |-> net.nodeCount + Len(new_nodes)]

\* apply_rand_spiking_neuron_rad(rad, seed, snn, ignored_neuron_names)
apply_rand_spiking_neuron_rad(net, rad, seed, ignored_neuron_names) ==
    LET new_nodes == NeuronSpikeNewNodes(net, rad, seed, ignored_neuron_names)
    IN  [nodes |-> net.nodes \o
            [k \in 1..Len(new_nodes) |-> new_nodes[k].rand_spiking_node],
         synapses |-> net.synapses \o
            Concat([k \in 1..Len(new_nodes) |->
                [j \in 1..Len(new_nodes[k].synapses) |->
                    Synapse(new_nodes[k].rand_spiking_node,
                            new_nodes[k].synapses[j].post,
                            new_nodes[k].synapses[j].w, NewSynapseDelay)]]),
         nodeCount |-> net.nodeCount + Len(new_nodes)]

\* apply_rand_spiking_synapse_rad, first loop: new_synapses, the
\* (rand_spiking_node, synapse) tuples.
SynapseSpikeNewSynapses(net, rad, seed, ignored_neuron_names) ==
    LET at == SynapsePositions(net.synapses, ignored_neuron_names)
    IN  [k \in 1..Len(at) |->
            [rand_spiking_node |->
                NewRandomSpiker(net, rad.probability_per_t,
                                RandSpikerAmplitude, seed, at[k], k),
             synapse |-> net.synapses[at[k] + 1]]]

\* The routine wiring each source to the pre of its synapse, not to the post.
apply_rand_spiking_synapse_rad_onto_pre(net, rad, seed, ignored_neuron_names) ==
    LET new_synapses ==
            SynapseSpikeNewSynapses(net, rad, seed, ignored_neuron_names)
    IN  [nodes |-> net.nodes \o
            [k \in 1..Len(new_synapses) |-> new_synapses[k].rand_spiking_node],
         synapses |-> net.synapses \o
            [k \in 1..Len(new_synapses) |->
                Synapse(new_synapses[k].rand_spiking_node,
                        new_synapses[k].synapse.pre,
                        new_synapses[k].synapse.w, NewSynapseDelay)],
         nodeCount |-> net.nodeCount + Len(new_synapses)]

\* apply_rand_spiking_synapse_rad(rad, seed, snn, ignored_neuron_names)
apply_rand_spiking_synapse_rad(net, rad, seed, ignored_neuron_names) ==
    LET new_synapses ==
            SynapseSpikeNewSynapses(net, rad, seed, ignored_neuron_names)
    IN  [nodes |-> net.nodes \o
            [k \in 1..Len(new_synapses) |-> new_synapses[k].rand_spiking_node],
         synapses |-> net.synapses \o
            [k \in 1..Len(new_synapses) |->
                Synapse(new_synapses[k].rand_spiking_node,
                        new_synapses[k].synapse.post,
                        new_synapses[k].synapse.w, NewSynapseDelay)],
         nodeCount |-> net.nodeCount + Len(new_synapses)]

\* apply_rad_to_simsnn: the routine the if/elif chain runs for an effect
\* type, "none" when no condition of the chain holds.
Branch(effect_type) ==
    IF effect_type = "change_u" THEN "apply_delta_u_rad"
    ELSE IF effect_type = "rand_neuron_spike" THEN "apply_rand_spiking_neuron_rad"
    ELSE IF effect_type = "rand_synapse_spike" THEN "apply_rand_spiking_synapse_rad"
    ELSE "none"

\* The network a routine leaves.
RunBranch(branch, net, rad, seed, ignored_neuron_names) ==
    IF branch = "apply_delta_u_rad"
    THEN apply_delta_u_rad(net, rad, seed, ignored_neuron_names)
    ELSE IF branch = "apply_rand_spiking_neuron_rad"
    THEN apply_rand_spiking_neuron_rad(net, rad, seed, ignored_neuron_names)
    ELSE IF branch = "apply_rand_spiking_synapse_rad"
    THEN apply_rand_spiking_synapse_rad(net, rad, seed, ignored_neuron_names)
    ELSE net

\* apply_rad_to_simsnn(rad, seed, snn, ignored_neuron_names): the network it
\* leaves. It has no else and no raise: it returns in every case.
apply_rad_to_simsnn(net, rad, seed, ignored_neuron_names) ==
    RunBranch(Branch(rad.effect_type), net, rad, seed, ignored_neuron_names)

\* The check apply_synapse_weight_increase_rad starts with: neither form of
\* probability is given.
WeightIncreaseRaises(rad) ==
    (~rad.nr_of_synaptic_weight_increases.some) /\ (~rad.probability_per_t.some)

\* The Synaptic_rad object the routine makes of the radiation object.
SynapticRadOf(net, rad, seed, est_sim_duration) ==
    Synaptic_rad(rad.amplitude, rad.effect_type, est_sim_duration,
                 Len(net.synapses),
                 [i \in 1..Len(net.nodes) |-> net.nodes[i].name],
                 rad.nr_of_synaptic_weight_increases, rad.probability_per_t,
                 seed)

\* Objects made by copy.deepcopy are new: their oid is that of the original
\* moved by a multiple of CopyStride that no object of the network has.
CopyStride == 100

Larger(a, b) == IF a < b THEN b ELSE a

RECURSIVE LargestOid(_)
LargestOid(ns) ==
    IF ns = << >> THEN 0 ELSE Larger(ns[1].oid, LargestOid(Tail(ns)))

\* The deepest copy among the objects of the network: 0 when none of them is
\* a copy, 1 when some are copies of originals, and so on.
CopyGeneration(net) ==
    Larger(LargestOid(net.nodes),
           Larger(LargestOid([k \in 1..Len(net.synapses) |-> net.synapses[k].pre]),
                  LargestOid([k \in 1..Len(net.synapses) |-> net.synapses[k].post])))
    \div CopyStride

\* The copy copy.deepcopy makes of a node, every time it meets that node.
DeepCopyNode(net, node) ==
    [node EXCEPT !.oid = (@ % CopyStride) + CopyStride * (CopyGeneration(net) + 1)]

\* copied_synapses = copy.deepcopy(snn.network.synapses): copies of the
\* synapses, whose pre and post are copies of the nodes.
DeepCopySynapses(net) ==
    [k \in 1..Len(net.synapses) |->
        [net.synapses[k] EXCEPT !.pre = DeepCopyNode(net, @),
                                !.post = DeepCopyNode(net, @)]]

\* `synapse.pre.name not in ignored_neuron_names and synapse.post.name not in
\* ignored_neuron_names`
BothNotIgnored(synapse, ignored_neuron_names) ==
    /\ NotIgnored(synapse.pre.name, ignored_neuron_names)
    /\ NotIgnored(synapse.post.name, ignored_neuron_names)

\* apply_synapse_weight_increase_rad(est_sim_duration, ignored_neuron_names,
\* rad, seed, snn), past its check: the network it leaves.
apply_synapse_weight_increase_rad(net, rad, seed, ignored_neuron_names, est_sim_duration) ==
    LET synaptic_rad == SynapticRadOf(net, rad, seed, est_sim_duration)
        copied_synapses == DeepCopySynapses(net)
    IN  [net EXCEPT !.synapses =
            [k \in 1..Len(net.synapses) |->
                IF BothNotIgnored(copied_synapses[k], ignored_neuron_names)
                THEN SynapseWith(copied_synapses[k].pre, copied_synapses[k].post,
                                 copied_synapses[k].w, copied_synapses[k].d,
                                 IntID(k - 1), SomeRadiation(synaptic_rad))
                ELSE net.synapses[k]]]

-----------------------------------------------------------------------------
(* Radiation_damage.py: neuron death on an nx.DiGraph. The graph is the     *)
(* sequence of its nodes in the order it enumerates them; a node is a       *)
(* record [name, rad_death, vth], rad_death absent until it is stored.      *)

NoneBool == [some |-> FALSE, v |-> FALSE]
SomeBool(b) == [some |-> TRUE, v |-> b]

\* vth.set(9999), and the 9999 verify_radiation_is_applied compares with
DeathSentinel == 9999

\* int(x) of the number n/d (d > 0): the fraction is cut off, toward zero.
IntOf(n, d) == IF n >= 0 THEN n \div d ELSE -((-n) \div d)

\* nr_of_dead_neurons = int(len(get_degree) * probability)
NrOfDeadNeurons(graph, probability) ==
    IntOf(Len(graph) * probability.num, probability.den)

\* random.sample(population, k) raises ValueError for a k that is negative or
\* larger than the population.
SampleRaises(n, k) == k < 0 \/ k > n

\* A draw with replacement: every sequence of k positions.
SamplesWithReplacement(n, k) == [1..k -> 0..(n - 1)]

\* random.sample(range(0, n), k): the lists it can return for some seed, k
\* distinct positions in any order.
Samples(n, k) ==
    {s \in [1..k -> 0..(n - 1)] : \A i, j \in 1..k : s[i] = s[j] => i = j}

\* get_random_neurons, the loop: the names of the nodes whose count is in
\* rand_indices, in the order of the graph.
DeadNeuronNames(graph, rand_indices) ==
    LET at == SelectSeq([i \in 1..Len(graph) |-> i - 1],
                        LAMBDA count :
                            \E j \in 1..Len(rand_indices) : rand_indices[j] = count)
    IN  [k \in 1..Len(at) |-> graph[at[k] + 1].name]

\* `node_name in dead_neuron_names`
InNames(name, names) == \E j \in 1..Len(names) : names[j] = name

\* store_dead_neuron_names_in_graph(G, dead_neuron_names)
store_dead_neuron_names_in_graph(graph, dead_neuron_names) ==
    [i \in 1..Len(graph) |->
        [graph[i] EXCEPT
            !.rad_death = SomeBool(InNames(graph[i].name, dead_neuron_names))]]

\* kill_neurons that sets no threshold.
kill_neurons_skipped(graph, dead_node_names) == graph

\* kill_neurons(get_degree, dead_node_names), for names of nodes of the graph
kill_neurons(graph, dead_node_names) ==
    [i \in 1..Len(graph) |->
        IF InNames(graph[i].name, dead_node_names)
        THEN [graph[i] EXCEPT !.vth = DeathSentinel]
        ELSE graph[i]]

\* inject_simulated_radiation, after get_random_neurons has returned
\* dead_neuron_names: the graph it leaves.
inject_simulated_radiation(graph, dead_neuron_names) ==
    kill_neurons(
        store_dead_neuron_names_in_graph(graph, dead_neuron_names),
        dead_neuron_names)

\* verify_radiation_is_applied, what the checks of one node end in: "none"
\* when they pass, KeyError when the node has no rad_death.
VerifyNode(node, dead_neuron_names) ==
    IF ~InNames(node.name, dead_neuron_names) THEN "none"
    ELSE IF ~node.rad_death.some THEN "KeyError"
    ELSE IF ~node.rad_death.v THEN "Exception"
    ELSE IF node.vth # DeathSentinel THEN "Exception"
    ELSE "none"

\* verify_radiation_is_applied(some_graph, dead_neuron_names, rad_type):
\* "returned", or the exception of the first node that fails.
verify_radiation_is_applied(graph, dead_neuron_names, rad_type) ==
    IF rad_type # "neuron_death" THEN "Exception"
    ELSE LET failing == {i \in 1..Len(graph) :
                            VerifyNode(graph[i], dead_neuron_names) # "none"}
         IN  IF failing = {} THEN "returned"
             ELSE VerifyNode(
                     graph[CHOOSE i \in failing : \A j \in failing : i <= j],
                     dead_neuron_names)

-----------------------------------------------------------------------------
(* Bounds and input sets *)

MaxNames == 2       \* longest list of names handed to the hashing routines
MaxHashCalls == 2   \* successive get_rad_hash calls on one list
MaxSynapses == 2    \* most synapses of a network an injection is tried on
MaxIgnored == 1     \* most names in ignored_neuron_names
MaxCopies == 2      \* most times the synapses of a network are deep-copied

\* The names of the neurons the caller creates: "A", "B", "C".
NeuronNameList == <<<<65>>, <<66>>, <<67>>>>

Range(s) == {s[i] : i \in 1..Len(s)}

\* The network of the first n named neurons, before it has synapses.
InitNodes(n) == [i \in 1..n |-> LIF(i, NeuronNameList[i])]

\* Weight and delay of the synapses the caller creates.
SynapseParams == {[w |-> 2, d |-> 1], [w |-> 3, d |-> 0]}

\* The ID the caller gives a synapse: "<pre>-<post>".
CallerSynapseID(a, b) == StrID(a.name \o <<45>> \o b.name)

\* The synapse lists the caller can have created between the nodes ns.
InitSynapses(ns) ==
    UNION {[1..m -> {SynapseWith(a, b, q.w, q.d, CallerSynapseID(a, b),
                                 NoRadiation) :
                        a \in Range(ns), b \in Range(ns), q \in SynapseParams}] :
           m \in 0..MaxSynapses}

\* The radiation objects the injection routines are tried with: one for each
\* effect type, with a probability_per_t.
NetRads ==
    Constructed(
        [amplitude : {-3},
         effect_type : SupportedEffectTypes,
         excitatory : {TRUE},
         inhibitory : {FALSE},
         probability_per_t : {SomeFloat(Rat(1, 2))},
         nr_of_synaptic_weight_increases : {NoneInt}])

RadsOf(effect_types) == {r \in NetRads : r.effect_type \in effect_types}

\* The radiation objects apply_synapse_weight_increase_rad is tried with: a
\* probability_per_t or a nr_of_synaptic_weight_increases.
WeightRads ==
    Constructed(
        [amplitude : {-3},
         effect_type : {"change_synaptic_weight"},
         excitatory : {TRUE},
         inhibitory : {FALSE},
         probability_per_t : {NoneFloat, SomeFloat(Rat(1, 2))},
         nr_of_synaptic_weight_increases : {NoneInt, SomeInt(2)}])

EstSimDurations == {10}

NetSeeds == {7}

IgnoredLists ==
    {S \in SUBSET Range(NeuronNameList) : Cardinality(S) <= MaxIgnored}

\* probability_per_t values: -0.1, 0.0, 0.5, 1.0, 1.5
Probabilities == {Rat(-1, 10), Rat(0, 1), Rat(1, 2), Rat(1, 1), Rat(3, 2)}

\* The constructor calls tried.
CtorArgs ==
    [amplitude : {-3, 5},
     effect_type : SupportedEffectTypes \cup {"synapse_death"},
     excitatory : BOOLEAN,
     inhibitory : BOOLEAN,
     probability_per_t : {NoneFloat} \cup {SomeFloat(q) : q \in Probabilities},
     nr_of_synaptic_weight_increases : {NoneInt, SomeInt(0), SomeInt(2)}]

\* The radiation objects the hashing routines are tried on.
HashRads ==
    Constructed(
        [amplitude : {5},
         effect_type : {"neuron_death", "change_u"},
         excitatory : {TRUE},
         inhibitory : {FALSE},
         probability_per_t : {NoneFloat, SomeFloat(Rat(1, 2))},
         nr_of_synaptic_weight_increases : {NoneInt, SomeInt(2)}])

HashSeeds == {7, 42}

\* The names "A", "B", "C".
HashNames == {<<65>>, <<66>>, <<67>>}

NameLists == UNION {[1..n -> HashNames] : n \in 0..MaxNames}

\* Every order the six attributes can be enumerated in.
FieldOrders ==
    {[i \in 1..Len(DictOrder) |-> DictOrder[p[i]]] :
        p \in Permutations(1..Len(DictOrder))}

\* The threshold of a neuron nothing has been done to.
InitialVth == 1

\* The graph of the first n named neurons.
InitGraph(n) ==
    [i \in 1..n |->
        [name |-> NeuronNameList[i], rad_death |-> NoneBool, vth |-> InitialVth]]

\* probability values: -0.5, 0.0, 1/3, 0.5, 2/3, 1.0, 1.5
DeathProbabilities ==
    {Rat(-1, 2), Rat(0, 1), Rat(1, 3), Rat(1, 2), Rat(2, 3), Rat(1, 1), Rat(3, 2)}

DeathSeeds == {7}

\* The lists of names of nodes of the graph, in its order, a caller hands to
\* store_dead_neuron_names_in_graph, kill_neurons or
\* verify_radiation_is_applied.
DeadLists(graph) ==
    {DeadNeuronNames(graph, rand_indices) :
        rand_indices \in UNION {Samples(Len(graph), k) : k \in 0..Len(graph)}}

RadTypes == {"neuron_death", "change_u"}


-----------------------------------------------------------------------------
(* States in which a part of the program has not been used *)

NoRad ==
    [amplitude |-> 0, effect_type |-> "none", excitatory |-> FALSE,
     inhibitory |-> FALSE, probability_per_t |-> NoneFloat,
     nr_of_synaptic_weight_increases |-> NoneInt]

NoCall ==
    [op |-> "none", rad |-> NoRad, seed |-> 0, ignored_neuron_names |-> {},
     branch |-> "none", outcome |-> "none"]

EmptyNet == [nodes |-> << >>, synapses |-> << >>, nodeCount |-> 0]

NoCtor == [called |-> FALSE, args |-> NoRad, raised_at |-> "none", raised |-> "none"]

NoHash ==
    [op |-> "none", rad |-> NoRad, seed |-> 0, arg |-> << >>, other |-> << >>,
     out |-> << >>]

NetIdle ==
    /\ nodes = << >>
    /\ synapses = << >>
    /\ nodeCount = 0
    /\ pre = EmptyNet
    /\ call = NoCall

TwinIdle ==
    /\ nodesB = << >>
    /\ synapsesB = << >>
    /\ nodeCountB = 0

CtorIdle == ctor = NoCtor

HashIdle ==
    /\ neuron_names = << >>
    /\ hashlog = NoHash

NoDeath ==
    [op |-> "none", probability |-> Rat(0, 1), seed |-> 0,
     rand_indices |-> << >>, names |-> << >>, rad_type |-> "none",
     outcome |-> "none"]

DeathIdle ==
    /\ G = << >>
    /\ deathlog = NoDeath

-----------------------------------------------------------------------------
(* Specification of the injection routines *)

Net == [nodes |-> nodes, synapses |-> synapses, nodeCount |-> nodeCount]
NetB == [nodes |-> nodesB, synapses |-> synapsesB, nodeCount |-> nodeCountB]

\* The caller's network: some of the named neurons, some synapses between
\* them; simsnn has created these nodes and no other.
InitNet ==
    /\ \E n \in 0..Len(NeuronNameList) :
          /\ nodes = InitNodes(n)
          /\ nodeCount = n
    /\ synapses \in InitSynapses(nodes)
    /\ pre = Net
    /\ call = NoCall

Init == InitNet /\ TwinIdle /\ CtorIdle /\ HashIdle /\ DeathIdle

\* Injections are tried on networks within the bounds: on the caller's
\* network, and on a network that the call before has added to. (A call
\* that added nothing left a network that has been tried already, and the
\* next call overwrites what is recorded of it.)
WithinBounds ==
    /\ Len(nodes) <= Len(NeuronNameList)
    /\ Len(synapses) <= MaxSynapses
    /\ call.op = "none" \/ Len(nodes) > Len(pre.nodes)

\* A call of routine op that ran branch and left the network res.
Returned(op, branch, rad, seed, ignored_neuron_names, res) ==
    /\ WithinBounds
    /\ pre' = Net
    /\ nodes' = res.nodes
    /\ synapses' = res.synapses
    /\ nodeCount' = res.nodeCount
    /\ call' = [op |-> op, rad |-> rad, seed |-> seed,
                ignored_neuron_names |-> ignored_neuron_names,
                branch |-> branch, outcome |-> "returned"]

CallApplyRadToSimsnn(rad, seed, ign) ==
    Returned("apply_rad_to_simsnn", Branch(rad.effect_type), rad, seed, ign,
             apply_rad_to_simsnn(Net, rad, seed, ign))

CallApplyDeltaURad(rad, seed, ign) ==
    Returned("apply_delta_u_rad", "apply_delta_u_rad", rad, seed, ign,
             apply_delta_u_rad(Net, rad, seed, ign))

CallApplyRandSpikingNeuronRad(rad, seed, ign) ==
    Returned("apply_rand_spiking_neuron_rad", "apply_rand_spiking_neuron_rad",
             rad, seed, ign, apply_rand_spiking_neuron_rad(Net, rad, seed, ign))

CallApplyRandSpikingSynapseRad(rad, seed, ign) ==
    Returned("apply_rand_spiking_synapse_rad", "apply_rand_spiking_synapse_rad",
             rad, seed, ign, apply_rand_spiking_synapse_rad(Net, rad, seed, ign))

\* apply_rad_to_simsnn(rad, seed, snn, ignored_neuron_names)
ApplyRadToSimsnn ==
    \E rad \in NetRads, seed \in NetSeeds, ign \in IgnoredLists :
        /\ CallApplyRadToSimsnn(rad, seed, ign)
        /\ UNCHANGED <<twinVars, ctorVars, hashVars, deathVars>>

\* apply_delta_u_rad called directly, by a caller realising a change of
\* current or a neuron death.
ApplyDeltaURad ==
    \E rad \in RadsOf({"change_u", "neuron_death"}), seed \in NetSeeds,
       ign \in IgnoredLists :
        /\ CallApplyDeltaURad(rad, seed, ign)
        /\ UNCHANGED <<twinVars, ctorVars, hashVars, deathVars>>

\* apply_rand_spiking_neuron_rad called directly
ApplyRandSpikingNeuronRad ==
    \E rad \in RadsOf({"rand_neuron_spike"}), seed \in NetSeeds,
       ign \in IgnoredLists :
        /\ CallApplyRandSpikingNeuronRad(rad, seed, ign)
        /\ UNCHANGED <<twinVars, ctorVars, hashVars, deathVars>>

\* apply_rand_spiking_synapse_rad called directly
ApplyRandSpikingSynapseRad ==
    \E rad \in RadsOf({"rand_synapse_spike"}), seed \in NetSeeds,
       ign \in IgnoredLists :
        /\ CallApplyRandSpikingSynapseRad(rad, seed, ign)
        /\ UNCHANGED <<twinVars, ctorVars, hashVars, deathVars>>

Next ==
    \/ ApplyRadToSimsnn
    \/ ApplyDeltaURad
    \/ ApplyRandSpikingNeuronRad
    \/ ApplyRandSpikingSynapseRad

Spec == Init /\ [][Next]_vars

-----------------------------------------------------------------------------
(* Specification of the synaptic weight increase *)

\* apply_synapse_weight_increase_rad(est_sim_duration=...,
\* ignored_neuron_names=..., rad=..., seed=..., snn=...)
ApplySynapseWeightIncreaseRad ==
    \E rad \in WeightRads, seed \in NetSeeds, ign \in IgnoredLists,
       est_sim_duration \in EstSimDurations :
        LET res == IF WeightIncreaseRaises(rad) THEN Net
                   ELSE apply_synapse_weight_increase_rad(
                            Net, rad, seed, ign, est_sim_duration)
        IN  /\ CopyGeneration(Net) < MaxCopies
            /\ pre' = Net
            /\ nodes' = res.nodes
            /\ synapses' = res.synapses
            /\ nodeCount' = res.nodeCount
            /\ call' = [op |-> "apply_synapse_weight_increase_rad",
                        rad |-> rad, seed |-> seed,
                        ignored_neuron_names |-> ign,
                        branch |-> "apply_synapse_weight_increase_rad",
                        outcome |-> IF WeightIncreaseRaises(rad)
                                    THEN "raised" ELSE "returned"]
            /\ UNCHANGED <<twinVars, ctorVars, hashVars, deathVars>>

NextWeight == ApplySynapseWeightIncreaseRad

SpecWeight == Init /\ [][NextWeight]_vars

-----------------------------------------------------------------------------
(* Specification of two independent runs on structurally identical networks *)

\* The names of the neurons the caller created, as the caller lists them.
LifNames(ns) ==
    LET lif == SelectSeq(ns, LAMBDA n : n.kind = "LIF")
    IN  [i \in 1..Len(lif) |-> lif[i].name]

\* The second network is built like the first, in a process in which simsnn
\* has created three more nodes before.
InitDet ==
    /\ InitNet
    /\ nodesB = nodes
    /\ synapsesB = synapses
    /\ nodeCountB = nodeCount + 3
    /\ CtorIdle /\ HashIdle /\ DeathIdle

\* The second run makes the same call on its own network.
SecondRun(res) ==
    /\ nodesB' = res.nodes
    /\ synapsesB' = res.synapses
    /\ nodeCountB' = res.nodeCount

BothApplyDeltaURad ==
    \E rad \in RadsOf({"change_u", "neuron_death"}), seed \in NetSeeds,
       ign \in IgnoredLists :
        /\ CallApplyDeltaURad(rad, seed, ign)
        /\ SecondRun(apply_delta_u_rad(NetB, rad, seed, ign))
        /\ UNCHANGED <<ctorVars, hashVars, deathVars>>

BothApplyRandSpikingNeuronRad ==
    \E rad \in RadsOf({"rand_neuron_spike"}), seed \in NetSeeds,
       ign \in IgnoredLists :
        /\ CallApplyRandSpikingNeuronRad(rad, seed, ign)
        /\ SecondRun(apply_rand_spiking_neuron_rad(NetB, rad, seed, ign))
        /\ UNCHANGED <<ctorVars, hashVars, deathVars>>

BothApplyRandSpikingSynapseRad ==
    \E rad \in RadsOf({"rand_synapse_spike"}), seed \in NetSeeds,
       ign \in IgnoredLists :
        /\ CallApplyRandSpikingSynapseRad(rad, seed, ign)
        /\ SecondRun(apply_rand_spiking_synapse_rad(NetB, rad, seed, ign))
        /\ UNCHANGED <<ctorVars, hashVars, deathVars>>

\* Each run fingerprints its injection: rad.get_rad_hash(names, seed) on a
\* list of the names of the neurons of its own network.
BothGetRadHash ==
    /\ call.op # "none"
    /\ hashlog.op = "none"
    /\ hashlog' =
         [hashlog EXCEPT
            !.op = "get_rad_hash", !.rad = call.rad, !.seed = call.seed,
            !.arg = LifNames(nodes), !.other = LifNames(nodesB),
            !.out = <<RadHashValue(call.rad, LifNames(nodes), call.seed),
                      RadHashValue(call.rad, LifNames(nodesB), call.seed)>>]
    /\ UNCHANGED <<neuron_names, netVars, twinVars, ctorVars, deathVars>>

NextDet ==
    \/ BothApplyDeltaURad
    \/ BothApplyRandSpikingNeuronRad
    \/ BothApplyRandSpikingSynapseRad
    \/ BothGetRadHash

SpecDet == InitDet /\ [][NextDet]_vars

-----------------------------------------------------------------------------
(* Specification of the constructor *)

InitCtor == NetIdle /\ TwinIdle /\ CtorIdle /\ HashIdle /\ DeathIdle

\* rad = Rad_damage(...)
Construct ==
    \E a \in CtorArgs :
        /\ ctor' = Rad_damage(a)
        /\ UNCHANGED <<netVars, twinVars, hashVars, deathVars>>

NextCtor == Construct

SpecCtor == InitCtor /\ [][NextCtor]_vars

-----------------------------------------------------------------------------
(* Specification of the hashing routines *)

InitHash ==
    /\ NetIdle /\ TwinIdle /\ CtorIdle /\ DeathIdle
    /\ neuron_names \in NameLists
    /\ hashlog = [NoHash EXCEPT !.arg = neuron_names]

\* rad.get_rad_hash(neuron_names, seed), on the list of the previous calls
\* and with their rad and seed.
GetRadHash ==
    \E rad \in HashRads, seed \in HashSeeds :
        /\ Len(hashlog.out) < MaxHashCalls
        /\ \/ hashlog.op = "none"
           \/ hashlog.op = "get_rad_hash" /\ hashlog.rad = rad /\ hashlog.seed = seed
        /\ neuron_names' = RadHashList(rad, neuron_names, seed)
        /\ hashlog' =
             [hashlog EXCEPT
                !.op = "get_rad_hash", !.rad = rad, !.seed = seed,
                !.out = Append(@, RadHashValue(rad, neuron_names, seed))]
        /\ UNCHANGED <<netVars, twinVars, ctorVars, deathVars>>

\* list_of_hashes_to_hash on the list and on a permutation of it.
ListOfHashesToHash ==
    \E p \in Permutations(1..Len(neuron_names)) :
        LET permuted == [i \in 1..Len(neuron_names) |-> neuron_names[p[i]]] IN
        /\ hashlog.op = "none"
        /\ hashlog' =
             [hashlog EXCEPT
                !.op = "list_of_hashes_to_hash", !.other = permuted,
                !.out = <<list_of_hashes_to_hash(neuron_names),
                          list_of_hashes_to_hash(permuted)>>]
        /\ UNCHANGED <<neuron_names, netVars, twinVars, ctorVars, deathVars>>

\* rad.get_rad_settings_hash(), and the same with the attributes of the
\* object enumerated in another order. The routine takes no list: it is
\* tried where the caller's list is empty.
GetRadSettingsHash ==
    \E rad \in HashRads, order \in FieldOrders :
        /\ hashlog.op = "none"
        /\ neuron_names = << >>
        /\ hashlog' =
             [hashlog EXCEPT
                !.op = "get_rad_settings_hash", !.rad = rad, !.other = order,
                !.out = <<get_rad_settings_hash(rad), SettingsHashIn(rad, order)>>]
        /\ UNCHANGED <<neuron_names, netVars, twinVars, ctorVars, deathVars>>

NextHash == GetRadHash \/ ListOfHashesToHash \/ GetRadSettingsHash

SpecHash == InitHash /\ [][NextHash]_vars

-----------------------------------------------------------------------------
(* Specification of the neuron death of Radiation_damage.py *)

InitDeath ==
    /\ NetIdle /\ TwinIdle /\ CtorIdle /\ HashIdle
    /\ \E n \in 0..Len(NeuronNameList) : G = InitGraph(n)
    /\ deathlog = NoDeath

\* A call that took these arguments and ended in outcome.
DeathLogged(op, probability, seed, rand_indices, names, rad_type, outcome) ==
    deathlog' = [op |-> op, probability |-> probability, seed |-> seed,
                 rand_indices |-> rand_indices, names |-> names,
                 rad_type |-> rad_type, outcome |-> outcome]

\* get_random_neurons(get_degree, probability, seed)
GetRandomNeurons ==
    \E probability \in DeathProbabilities, seed \in DeathSeeds :
        LET nr_of_dead_neurons == NrOfDeadNeurons(G, probability) IN
        /\ IF SampleRaises(Len(G), nr_of_dead_neurons)
           THEN DeathLogged("get_random_neurons", probability, seed, << >>,
                            << >>, "none", "ValueError")
           ELSE \E rand_indices \in Samples(Len(G), nr_of_dead_neurons) :
                   DeathLogged("get_random_neurons", probability, seed,
                               rand_indices, DeadNeuronNames(G, rand_indices),
                               "none", "returned")
        /\ UNCHANGED <<G, netVars, twinVars, ctorVars, hashVars>>

\* inject_simulated_radiation(get_degree, probability, seed)
InjectSimulatedRadiation ==
    \E probability \in DeathProbabilities, seed \in DeathSeeds :
        LET nr_of_dead_neurons == NrOfDeadNeurons(G, probability) IN
        /\ IF SampleRaises(Len(G), nr_of_dead_neurons)
           THEN /\ DeathLogged("inject_simulated_radiation", probability, seed,
                               << >>, << >>, "none", "ValueError")
                /\ UNCHANGED G
           ELSE \E rand_indices \in Samples(Len(G), nr_of_dead_neurons) :
                   LET dead_neuron_names == DeadNeuronNames(G, rand_indices) IN
                   /\ G' = inject_simulated_radiation(G, dead_neuron_names)
                   /\ DeathLogged("inject_simulated_radiation", probability,
                                  seed, rand_indices, dead_neuron_names,
                                  "none", "returned")
        /\ UNCHANGED <<netVars, twinVars, ctorVars, hashVars>>

\* store_dead_neuron_names_in_graph(G=..., dead_neuron_names=...)
StoreDeadNeuronNamesInGraph ==
    \E dead_neuron_names \in DeadLists(G) :
        /\ G' = store_dead_neuron_names_in_graph(G, dead_neuron_names)
        /\ DeathLogged("store_dead_neuron_names_in_graph", Rat(0, 1), 0, << >>,
                       dead_neuron_names, "none", "returned")
        /\ UNCHANGED <<netVars, twinVars, ctorVars, hashVars>>

\* kill_neurons(get_degree, dead_node_names)
KillNeurons ==
    \E dead_node_names \in DeadLists(G) :
        /\ G' = kill_neurons(G, dead_node_names)
        /\ DeathLogged("kill_neurons", Rat(0, 1), 0, << >>, dead_node_names,
                       "none", "returned")
        /\ UNCHANGED <<netVars, twinVars, ctorVars, hashVars>>

\* verify_radiation_is_applied(some_graph=..., dead_neuron_names=...,
\* rad_type=...)
VerifyRadiationIsApplied ==
    \E dead_neuron_names \in DeadLists(G), rad_type \in RadTypes :
        /\ DeathLogged("verify_radiation_is_applied", Rat(0, 1), 0, << >>,
                       dead_neuron_names, rad_type,
                       verify_radiation_is_applied(G, dead_neuron_names,
                                                   rad_type))
        /\ UNCHANGED <<G, netVars, twinVars, ctorVars, hashVars>>

NextDeath ==
    \/ GetRandomNeurons
    \/ InjectSimulatedRadiation
    \/ StoreDeadNeuronNamesInGraph
    \/ KillNeurons
    \/ VerifyRadiationIsApplied

SpecDeath == InitDeath /\ [][NextDeath]_vars

-----------------------------------------------------------------------------
(* Claims about the injection routines *)

\* What the last call appended.
AddedNodes == SubSeq(nodes, Len(pre.nodes) + 1, Len(nodes))
AddedSynapses == SubSeq(synapses, Len(pre.synapses) + 1, Len(synapses))

Ignored == call.ignored_neuron_names

\* The position (from 0) of the element a synthetic source was created for:
\* the offset of its seed from the seed of the call.
PositionOf(source) == source.rngseed.v - call.seed

\* What a network is but for the names simsnn gave its unnamed nodes: for
\* each node its kind, firing probability, amplitude and seed (and the name
\* of a neuron of the caller), for each synapse the positions of its pre and
\* post in the node list, its weight and its delay.
NodeShape(n) ==
    [kind |-> n.kind, p |-> n.p, amplitude |-> n.amplitude,
     rngseed |-> n.rngseed,
     name |-> IF n.kind = "LIF" THEN n.name ELSE << >>]

PositionIn(ns, n) == CHOOSE i \in 0..Len(ns) : i = 0 \/ ns[i] = n

Shape(ns, syns) ==
    [nodes |-> [i \in 1..Len(ns) |-> NodeShape(ns[i])],
     synapses |-> [j \in 1..Len(syns) |->
        [pre |-> PositionIn(ns, syns[j].pre),
         post |-> PositionIn(ns, syns[j].post),
         w |-> syns[j].w, d |-> syns[j].d]]]

ExclusionPreAndPost ==
    call.op # "none" =>
        /\ \A k \in 1..Len(AddedNodes) :
              LET i == PositionOf(AddedNodes[k]) + 1 IN
              IF call.branch = "apply_rand_spiking_synapse_rad"
              THEN /\ i \in 1..Len(pre.synapses)
                   /\ pre.synapses[i].pre.name \notin Ignored
                   /\ pre.synapses[i].post.name \notin Ignored
              ELSE /\ i \in 1..Len(pre.nodes)
                   /\ pre.nodes[i].name \notin Ignored
        /\ \A j \in 1..Len(AddedSynapses) :
              /\ AddedSynapses[j].pre.name \notin Ignored
              /\ AddedSynapses[j].post.name \notin Ignored

\* C2 as amended. Exclusion of the selected element: after any injection
\* call, no synthetic source was created for a neuron in
\* ignored_neuron_names (delta-current, random neuron spike) or for a
\* synapse whose pre is such a neuron (random synapse spike); no synapse the
\* call added has such a neuron as its pre, and in the delta-current branch
\* none has such a neuron as its post.
ExclusionOfSelected ==
    call.op # "none" =>
        /\ \A k \in 1..Len(AddedNodes) :
              LET i == PositionOf(AddedNodes[k]) + 1 IN
              IF call.branch = "apply_rand_spiking_synapse_rad"
              THEN /\ i \in 1..Len(pre.synapses)
                   /\ pre.synapses[i].pre.name \notin Ignored
              ELSE /\ i \in 1..Len(pre.nodes)
                   /\ pre.nodes[i].name \notin Ignored
        /\ \A j \in 1..Len(AddedSynapses) :
              /\ AddedSynapses[j].pre.name \notin Ignored
              /\ call.branch = "apply_delta_u_rad" =>
                    AddedSynapses[j].post.name \notin Ignored

\* A random-neuron-spike call on a network with an ignored neuron: every
\* other neuron got a source, and the ignored neuron, being the post of
\* another neuron's synapse, is the post of an added synapse.
ExclusionOfSelectedWitness ==
    /\ call.branch = "apply_rand_spiking_neuron_rad"
    /\ \E i \in 1..Len(pre.nodes) : pre.nodes[i].name \in Ignored
    /\ Len(AddedNodes) = Len(pre.nodes) - 1
    /\ \E j \in 1..Len(AddedSynapses) : AddedSynapses[j].post.name \in Ignored

\* The routine the dispatch contract names for an effect type.
ContractBranch(effect_type) ==
    IF effect_type \in {"change_u", "neuron_death"} THEN "apply_delta_u_rad"
    ELSE IF effect_type = "rand_neuron_spike" THEN "apply_rand_spiking_neuron_rad"
    ELSE IF effect_type = "rand_synapse_spike" THEN "apply_rand_spiking_synapse_rad"
    ELSE "none"

\* C3. Dispatch: after apply_rad_to_simsnn with effect type change_u or
\* neuron_death the network is what apply_delta_u_rad makes of the network
\* before the call, with rand_neuron_spike what
\* apply_rand_spiking_neuron_rad makes of it, with rand_synapse_spike what
\* apply_rand_spiking_synapse_rad makes of it.
DispatchContract ==
    ( /\ call.op = "apply_rad_to_simsnn"
      /\ ContractBranch(call.rad.effect_type) # "none" )
    => Net = RunBranch(ContractBranch(call.rad.effect_type), pre, call.rad,
                       call.seed, Ignored)

\* C4. An effect type the dispatcher does not realize is an error: a call of
\* apply_rad_to_simsnn that runs none of its branches ends in a raise, never
\* in a normal return.
UnsupportedEffectRaises ==
    (call.op = "apply_rad_to_simsnn" /\ call.branch = "none")
    => call.outcome = "raised"

\* The positions (from 1) of the neurons of the network before the call
\* whose names are not ignored.
NotIgnoredBefore == {i \in 1..Len(pre.nodes) : pre.nodes[i].name \notin Ignored}

\* The source the call created for the neuron at position i: the sources
\* are appended in the order of their neurons.
SourceOf(i) ==
    nodes[Len(pre.nodes) + Cardinality({j \in NotIgnoredBefore : j <= i})]

\* C5. Random-neuron-spike wiring: the call adds one RandomSpiker for each
\* neuron of the network before the call that is not ignored, and for each
\* synapse of that network whose pre is such a neuron n it adds one synapse
\* from the source of n to the post of that synapse with its weight; it adds
\* no other synapse (so a source whose neuron has no outgoing synapse has
\* none).
NeuronSpikeWiring ==
    call.branch = "apply_rand_spiking_neuron_rad" =>
        /\ Len(AddedNodes) = Cardinality(NotIgnoredBefore)
        /\ \A k \in 1..Len(AddedNodes) : AddedNodes[k].kind = "RandomSpiker"
        /\ Len(AddedSynapses) =
              Cardinality({j \in 1..Len(pre.synapses) :
                  \E i \in NotIgnoredBefore :
                      pre.synapses[j].pre.oid = pre.nodes[i].oid})
        /\ \A i \in NotIgnoredBefore : \A j \in 1..Len(pre.synapses) :
              pre.synapses[j].pre.oid = pre.nodes[i].oid =>
                 Cardinality({a \in 1..Len(AddedSynapses) :
                      /\ AddedSynapses[a].pre = SourceOf(i)
                      /\ AddedSynapses[a].post = pre.synapses[j].post
                      /\ AddedSynapses[a].w = pre.synapses[j].w})
                 = Cardinality({b \in 1..Len(pre.synapses) :
                      /\ pre.synapses[b].pre.oid = pre.nodes[i].oid
                      /\ pre.synapses[b].post = pre.synapses[j].post
                      /\ pre.synapses[b].w = pre.synapses[j].w})

\* Neurons A, B, C with one synapse A -> B of weight 2, nothing ignored:
\* three new sources and one new synapse, from the source of A to B, of
\* weight 2.
NeuronSpikeWiringWitness ==
    /\ call.branch = "apply_rand_spiking_neuron_rad"
    /\ Ignored = {}
    /\ Len(pre.nodes) = 3
    /\ Len(pre.synapses) = 1
    /\ pre.synapses[1].pre = pre.nodes[1]
    /\ pre.synapses[1].post = pre.nodes[2]
    /\ pre.synapses[1].w = 2
    /\ Len(nodes) = 6
    /\ Len(synapses) = 2
    /\ synapses[2].pre = nodes[4]
    /\ synapses[2].post = nodes[2]
    /\ synapses[2].w = 2

\* The elements a branch selects from: the synapses for the random synapse
\* spike, the nodes for the other two.
SelectedFrom ==
    IF call.branch = "apply_rand_spiking_synapse_rad"
    THEN pre.synapses ELSE pre.nodes

\* C6. No self-mutation: in every injection call each synthetic source is
\* created for an element of the network as it was before the call (never
\* for a source created in the same call), and no source created in the call
\* is the post of a synapse added by the call.
NoSelfMutation ==
    call.op # "none" =>
        /\ \A k \in 1..Len(AddedNodes) :
              PositionOf(AddedNodes[k]) \in 0..(Len(SelectedFrom) - 1)
        /\ Len(AddedNodes) <= Len(SelectedFrom)
        /\ \A j \in 1..Len(AddedSynapses) :
              /\ \E i \in 1..Len(pre.nodes) : AddedSynapses[j].post = pre.nodes[i]
              /\ \A k \in 1..Len(AddedNodes) : AddedSynapses[j].post # AddedNodes[k]

\* A delta-current call on a network that holds a source of an earlier call:
\* that source is selected now, and gets a source and a synapse of its own.
NoSelfMutationWitness ==
    /\ call.branch = "apply_delta_u_rad"
    /\ \E i \in 1..Len(pre.nodes) :
          /\ pre.nodes[i].kind = "RandomSpiker"
          /\ \E j \in 1..Len(AddedSynapses) : AddedSynapses[j].post = pre.nodes[i]
    /\ Len(AddedNodes) = Len(pre.nodes)

\* The neurons of the network before the call whose names are excluded.
IgnoredBefore == {i \in 1..Len(pre.nodes) : pre.nodes[i].name \in Ignored}

\* C13. Delta-current wiring: apply_delta_u_rad adds exactly one synthetic
\* source for every neuron of the network before the call whose name is not
\* excluded, and exactly one synapse per source, from that source to its
\* neuron, with weight rad.amplitude and delay 1; it adds nothing else: a
\* network of N nodes, E of them excluded, ends with N + (N - E) nodes and
\* N - E more synapses.
DeltaUWiring ==
    call.branch = "apply_delta_u_rad" =>
        LET N == Len(pre.nodes)
            E == Cardinality(IgnoredBefore)
        IN  /\ Len(nodes) = N + (N - E)
            /\ Len(synapses) = Len(pre.synapses) + (N - E)
            /\ \A k \in 1..Len(AddedNodes) :
                  /\ AddedNodes[k].kind = "RandomSpiker"
                  /\ PositionOf(AddedNodes[k]) + 1 \in NotIgnoredBefore
            /\ \A i \in NotIgnoredBefore :
                  /\ Cardinality({k \in 1..Len(AddedNodes) :
                        PositionOf(AddedNodes[k]) + 1 = i}) = 1
                  /\ PositionOf(SourceOf(i)) + 1 = i
                  /\ Cardinality({j \in 1..Len(AddedSynapses) :
                        AddedSynapses[j].pre = SourceOf(i)}) = 1
                  /\ \A j \in 1..Len(AddedSynapses) :
                        AddedSynapses[j].pre = SourceOf(i) =>
                            /\ AddedSynapses[j].post = pre.nodes[i]
                            /\ AddedSynapses[j].w = call.rad.amplitude
                            /\ AddedSynapses[j].d = 1
            /\ \A j \in 1..Len(AddedSynapses) :
                  \E i \in NotIgnoredBefore : AddedSynapses[j].pre = SourceOf(i)

\* Three neurons, one of them excluded: five nodes afterwards, and two more
\* synapses, onto the first and the last neuron.
DeltaUWiringWitness ==
    /\ call.branch = "apply_delta_u_rad"
    /\ Len(pre.nodes) = 3
    /\ Ignored = {pre.nodes[2].name}
    /\ Len(nodes) = 5
    /\ Len(AddedSynapses) = 2
    /\ AddedSynapses[1].post = pre.nodes[1]
    /\ AddedSynapses[2].post = pre.nodes[3]
    /\ AddedSynapses[2].pre = nodes[5]

\* C14. Delta-current source parameters: every synthetic source
\* apply_delta_u_rad creates fires with probability rad.probability_per_t
\* and has amplitude 1.
DeltaUSourceParameters ==
    call.branch = "apply_delta_u_rad" =>
        \A k \in 1..Len(AddedNodes) :
            /\ AddedNodes[k].p = call.rad.probability_per_t
            /\ AddedNodes[k].amplitude = 1

\* The synapses of the network before the call whose pre is not excluded.
SelectedSynapses ==
    {j \in 1..Len(pre.synapses) : pre.synapses[j].pre.name \notin Ignored}

\* C15. Random-synapse-spike injection: for every synapse of the network
\* before the call whose pre is not excluded, apply_rand_spiking_synapse_rad
\* creates exactly one synthetic source, seeded with seed plus the position of
\* the synapse in the synapse list, and exactly one synapse from it, to the
\* post of that synapse with its weight; every source has exactly one
\* outgoing synapse, and a synapse whose pre is excluded gets no source.
SynapseSpikeWiring ==
    call.branch = "apply_rand_spiking_synapse_rad" =>
        /\ Len(AddedNodes) = Cardinality(SelectedSynapses)
        /\ Len(AddedSynapses) = Cardinality(SelectedSynapses)
        /\ \A j \in 1..Len(pre.synapses) :
              LET sources == {k \in 1..Len(AddedNodes) :
                                 AddedNodes[k].rngseed = SomeInt(call.seed + (j - 1))}
              IN  IF j \in SelectedSynapses
                  THEN /\ Cardinality(sources) = 1
                       /\ \A k \in sources :
                             /\ AddedNodes[k].kind = "RandomSpiker"
                             /\ \E a \in 1..Len(AddedSynapses) :
                                   /\ AddedSynapses[a].pre = AddedNodes[k]
                                   /\ AddedSynapses[a].post = pre.synapses[j].post
                                   /\ AddedSynapses[a].w = pre.synapses[j].w
                  ELSE sources = {}
        /\ \A k \in 1..Len(AddedNodes) :
              Cardinality({a \in 1..Len(synapses) :
                              synapses[a].pre = AddedNodes[k]}) = 1

\* Two synapses A -> B and B -> A of different weights, A excluded: one
\* source, seeded for the second synapse, wired to A with that synapse's
\* weight.
SynapseSpikeWiringWitness ==
    /\ call.branch = "apply_rand_spiking_synapse_rad"
    /\ Len(pre.synapses) = 2
    /\ pre.synapses[1].pre.name \in Ignored
    /\ pre.synapses[2].pre.name \notin Ignored
    /\ pre.synapses[2].post = pre.synapses[1].pre
    /\ pre.synapses[1].w # pre.synapses[2].w
    /\ Len(AddedNodes) = 1
    /\ AddedNodes[1].rngseed = SomeInt(call.seed + 1)
    /\ Len(AddedSynapses) = 1
    /\ AddedSynapses[1].post = pre.synapses[2].post
    /\ AddedSynapses[1].w = pre.synapses[2].w

\* s is what t starts with.
IsPrefix(s, t) == Len(s) <= Len(t) /\ SubSeq(t, 1, Len(s)) = s

\* C16. Append-only frame: every call of an injection branch (delta-current,
\* random neuron spike, random synapse spike) leaves a node sequence and a
\* synapse sequence that start with the sequences it found, so after any
\* sequence of calls the sequences of before the first call are prefixes of
\* the resulting ones: no node or synapse is removed, reordered, renamed or
\* given another pre, post, weight or delay.
AppendOnlyFrame ==
    [][IsPrefix(nodes, nodes') /\ IsPrefix(synapses, synapses')]_vars

\* A second call, on a network that holds a synapse of the caller and a
\* source and a synapse of the first call, has added a node and a synapse.
AppendOnlyFrameWitness ==
    /\ call.op # "none"
    /\ \E i \in 1..Len(pre.nodes) : pre.nodes[i].kind = "RandomSpiker"
    /\ \E j \in 1..Len(pre.synapses) : pre.synapses[j].pre.kind = "LIF"
    /\ \E j \in 1..Len(pre.synapses) : pre.synapses[j].pre.kind = "RandomSpiker"
    /\ Len(AddedNodes) >= 1
    /\ Len(AddedSynapses) >= 1
    /\ IsPrefix(pre.nodes, nodes)
    /\ IsPrefix(pre.synapses, synapses)

-----------------------------------------------------------------------------
(* Claims about the constructor *)

BothOrNeither(a) ==
    a.probability_per_t.some = a.nr_of_synaptic_weight_increases.some

ExclusivityRaises == {"need_some_probability", "two_probability_forms"}

\* C7. Mutual exclusivity: a construction with both probability_per_t and
\* nr_of_synaptic_weight_increases set, or with neither set, raises a
\* ValueError, whatever the other arguments are; a construction with exactly
\* one of them set does not end in either of these two raise statements.
MutualExclusivity ==
    ctor.called =>
        /\ BothOrNeither(ctor.args) =>
              ctor.raised = "ValueError" /\ ctor.raised_at \in ExclusivityRaises
        /\ ~BothOrNeither(ctor.args) => ctor.raised_at \notin ExclusivityRaises

\* Both forms given, with an effect type that is itself not supported:
\* rejected as two forms.
MutualExclusivityWitness ==
    /\ ctor.called
    /\ ctor.args.probability_per_t.some
    /\ ctor.args.nr_of_synaptic_weight_increases.some
    /\ ctor.args.effect_type = "synapse_death"
    /\ ctor.raised_at = "two_probability_forms"

\* C8. Probability validation: a construction with probability_per_t above 1
\* or below 0 raises an error; with probability_per_t in [0, 1], the
\* boundaries included, no nr_of_synaptic_weight_increases and a supported
\* effect type, it returns the object.
ProbabilityValidation ==
    (ctor.called /\ ctor.args.probability_per_t.some) =>
        LET q == ctor.args.probability_per_t.v IN
        /\ (q.num > q.den \/ q.num < 0) => ctor.raised # "none"
        /\ ( /\ 0 <= q.num /\ q.num <= q.den
             /\ ~ctor.args.nr_of_synaptic_weight_increases.some
             /\ ctor.args.effect_type \in SupportedEffectTypes )
           => ctor.raised = "none"

\* probability_per_t = 1.0 is accepted.
ProbabilityValidationWitness ==
    /\ ctor.called
    /\ ctor.args.probability_per_t = SomeFloat(Rat(1, 1))
    /\ ctor.raised = "none"

-----------------------------------------------------------------------------
(* Claims about the hashing routines *)

\* C9. get_rad_hash works on a copy: after any number of get_rad_hash calls
\* with the same list, rad and seed, the caller's list holds what it held
\* before the first call and all the calls returned the same fingerprint.
FingerprintWorksOnCopy ==
    hashlog.op = "get_rad_hash" =>
        /\ neuron_names = hashlog.arg
        /\ \A i, j \in 1..Len(hashlog.out) : hashlog.out[i] = hashlog.out[j]

\* C10. Digest order-independence: list_of_hashes_to_hash returns the same
\* digest for a list and for any permutation of it, and
\* get_rad_settings_hash returns the same digest whatever the order in which
\* the attributes of the object are enumerated.
DigestOrderIndependence ==
    /\ hashlog.op = "list_of_hashes_to_hash" => hashlog.out[1] = hashlog.out[2]
    /\ hashlog.op = "get_rad_settings_hash" => hashlog.out[1] = hashlog.out[2]

\* A list and a different ordering of it, hashed to the same digest.
DigestOrderIndependenceWitness ==
    /\ hashlog.op = "list_of_hashes_to_hash"
    /\ hashlog.arg # hashlog.other
    /\ hashlog.out[1] = hashlog.out[2]

-----------------------------------------------------------------------------
(* Claims about the synaptic weight increase *)

\* C12. Weight-increase injection: after apply_synapse_weight_increase_rad
\* the synapse list is as long as before, and at every position k whose
\* synapse had both endpoints non-excluded there is a synapse with the same
\* pre and post node objects (nodes of the network, not copies), the same
\* weight, delay and ID as before, carrying the one shared fault object; a
\* synapse with an excluded endpoint is exactly as it was.
WeightIncreaseInPlace ==
    (call.op = "apply_synapse_weight_increase_rad" /\ call.outcome = "returned")
    =>  /\ Len(synapses) = Len(pre.synapses)
        /\ nodes = pre.nodes
        /\ \A k \in 1..Len(pre.synapses) :
              IF /\ pre.synapses[k].pre.name \notin Ignored
                 /\ pre.synapses[k].post.name \notin Ignored
              THEN /\ synapses[k].pre = pre.synapses[k].pre
                   /\ synapses[k].post = pre.synapses[k].post
                   /\ (\E i \in 1..Len(pre.nodes) :
                          pre.nodes[i] = pre.synapses[k].pre)
                      => \E i \in 1..Len(nodes) : nodes[i] = synapses[k].pre
                   /\ synapses[k].w = pre.synapses[k].w
                   /\ synapses[k].d = pre.synapses[k].d
                   /\ synapses[k].ID = pre.synapses[k].ID
                   /\ synapses[k].radiation.some
                   /\ \A j \in 1..Len(pre.synapses) :
                         ( /\ pre.synapses[j].pre.name \notin Ignored
                           /\ pre.synapses[j].post.name \notin Ignored )
                         => synapses[j].radiation = synapses[k].radiation
              ELSE synapses[k] = pre.synapses[k]

-----------------------------------------------------------------------------
(* Claims about the neuron death *)

\* The last call drew its neurons: get_random_neurons, alone or within
\* inject_simulated_radiation, with a probability in [0, 1], and returned.
Sampled ==
    /\ deathlog.op \in {"get_random_neurons", "inject_simulated_radiation"}
    /\ deathlog.outcome = "returned"
    /\ 0 <= deathlog.probability.num
    /\ deathlog.probability.num <= deathlog.probability.den

\* C11. Sampler bounds: for a graph of total_count >= 0 nodes, a probability
\* in [0, 1] and any seed, get_random_neurons returns exactly
\* floor(total_count * probability) names, all distinct, each the name of a
\* node of the graph, chosen at as many distinct positions in
\* [0, total_count); with probability 0 or an empty graph it returns the
\* empty list, with probability 1 the name of every node.
SamplerBounds ==
    Sampled =>
        LET total_count == Len(G)
            q == deathlog.probability
            names == deathlog.names
            at == deathlog.rand_indices
        IN  /\ Len(names) = (total_count * q.num) \div q.den
            /\ Len(at) = Len(names)
            /\ \A i, j \in 1..Len(names) : names[i] = names[j] => i = j
            /\ \A i, j \in 1..Len(at) : at[i] = at[j] => i = j
            /\ \A i \in 1..Len(at) : at[i] \in 0..(total_count - 1)
            /\ \A i \in 1..Len(names) :
                  \E k \in 1..Len(at) : G[at[k] + 1].name = names[i]
            /\ (q.num = 0 \/ total_count = 0) => names = << >>
            /\ q.num = q.den => names = [i \in 1..total_count |-> G[i].name]
            /\ Len(names) <= total_count

\* Two of three neurons drawn with probability 2/3, the later one first.
SamplerBoundsWitness ==
    /\ Sampled
    /\ deathlog.op = "get_random_neurons"
    /\ Len(G) = 3
    /\ deathlog.probability = Rat(2, 3)
    /\ Len(deathlog.names) = 2
    /\ deathlog.rand_indices[1] > deathlog.rand_indices[2]

=============================================================================
